---- MODULE Spec2Model ----
(***************************************************************************)
(* Language disambiguation and translation routing of the audio/text       *)
(* translator bot (src/main.py).                                           *)
(*                                                                         *)
(* A text is a sequence of whitespace-separated tokens, which is what      *)
(* str.split() sees; the empty string is the empty sequence.  Language     *)
(* codes are the strings "es", "en" and "unknown".                         *)
(***************************************************************************)
EXTENDS Integers, Sequences, FiniteSets, TLC

VARIABLES
    pc,                 \* position of the request being served
    kind,               \* which harness/handler the state belongs to
    FORCE_STT_LANG,     \* configuration: "es" | "en" | "auto"
    USE_LOCAL_GLOSSARY, \* configuration: glossary enabled
    vosk_ok,            \* environment: `import vosk` succeeds
    rec_es, rec_en,     \* environment: what each recognizer yields for the audio
    text_es, text_en,   \* the two hypotheses (after noise stripping)
    text_best, src_hint,\* the decision of vosk_transcribe_both
    text_in,            \* handle_text: the incoming message text
    src, dst,           \* source and target language of the request
    translated,         \* the current translation
    ts,                 \* record of the last translate_smart invocation
    translateCalls,     \* number of translate_smart invocations of the request
    flips,              \* number of times src changed after it was first decided
    replies,            \* messages sent to the chat, in order
    synth,              \* record of the last synthesize_tts invocation
    ttsCalls,           \* number of tts_to_mp3 invocations of the request
    gtext, gdir, gprev, gcount,   \* glossary harness
    speed, ffmpeg, copy_ok, adj   \* tempo harness

vars == << pc, kind, FORCE_STT_LANG, USE_LOCAL_GLOSSARY, vosk_ok, rec_es, rec_en,
           text_es, text_en, text_best, src_hint, text_in, src, dst, translated,
           ts, translateCalls, flips, replies, synth, ttsCalls,
           gtext, gdir, gprev, gcount, speed, ffmpeg, copy_ok, adj >>

-----------------------------------------------------------------------------
(* Bounds of the model *)

\* filler (non-stopword) tokens per hypothesis in the decision harness
MaxFill == 5
\* laughter tokens appended to a raw recognizer result
MaxNoise == 1
\* filler tokens per text in the request pipeline
PipeMaxFill == 1
\* tokens of a text given to the glossary harness
MaxGlossLen == 3
\* the tempo harness requests speeds up to this many halves (0.5 each)
MaxSpeedHalves == 10

-----------------------------------------------------------------------------
(* Generic helpers *)

Range(s) == { s[i] : i \in DOMAIN s }

Rep(w, n) == [ i \in 1..n |-> w ]

Max(a, b) == IF a >= b THEN a ELSE b

Abs(a) == IF a >= 0 THEN a ELSE -a

\* str.lower() on a token; the vocabulary holds one capitalised token
Lower(w) == IF w = "Señal" THEN "señal" ELSE w

LowerSet(t) == { Lower(t[i]) : i \in DOMAIN t }

-----------------------------------------------------------------------------
(* Stopword heuristics *)

ES_STOPS == { "el", "la", "de", "que", "y", "para", "con", "por", "los", "las",
              "una", "un", "en", "como", "pero", "porque", "aquí", "eso", "este",
              "esta", "esto", "así", "entonces", "hola", "gracias", "si", "no" }

EN_STOPS == { "the", "and", "you", "is", "are", "this", "that", "for", "with",
              "to", "in", "of", "on", "at", "it", "we", "they", "but" }

\* number of stopwords w with " w " inside " text.lower() "
stop_hits(text, stops) == Cardinality({ w \in stops : w \in LowerSet(text) })

guess_lang_by_stops(text) ==
    LET es_hits == stop_hits(text, ES_STOPS)
        en_hits == stop_hits(text, EN_STOPS)
    IN  IF es_hits >= 2 /\ es_hits > en_hits THEN "es"
        ELSE IF en_hits >= 2 /\ en_hits > es_hits THEN "en"
        ELSE "unknown"

Decision(t, h) == [ text |-> t, hint |-> h ]

\* the downgrade to "unknown" uses the wrong word count
pick_lang_by_score_min3(t_es, t_en) ==
    LET n_es == Len(t_es)
        n_en == Len(t_en)
        h_es == stop_hits(t_es, ES_STOPS)
        h_en == stop_hits(t_en, EN_STOPS)
        score_es == n_es + 2 * h_es
        score_en == n_en + 2 * h_en
    IN  IF score_es = 0 /\ score_en = 0 THEN Decision(<<>>, "unknown")
        ELSE IF Abs(score_es - score_en) <= 2 /\ h_es >= 1 /\ n_es >= 2
             THEN Decision(t_es, "es")
        ELSE IF Abs(score_es - score_en) <= 2 /\ h_en >= 1 /\ n_en >= 2
             THEN Decision(t_en, "en")
        ELSE IF score_es > score_en
             THEN Decision(t_es, IF n_es >= 3 THEN "es" ELSE "unknown")
        ELSE Decision(t_en, IF n_en >= 3 THEN "en" ELSE "unknown")

pick_lang_by_score(t_es, t_en) ==
    LET n_es == Len(t_es)
        n_en == Len(t_en)
        h_es == stop_hits(t_es, ES_STOPS)
        h_en == stop_hits(t_en, EN_STOPS)
        score_es == n_es + 2 * h_es
        score_en == n_en + 2 * h_en
    IN  IF score_es = 0 /\ score_en = 0 THEN Decision(<<>>, "unknown")
        ELSE IF Abs(score_es - score_en) <= 2 /\ h_es >= 1 /\ n_es >= 2
             THEN Decision(t_es, "es")
        ELSE IF Abs(score_es - score_en) <= 2 /\ h_en >= 1 /\ n_en >= 2
             THEN Decision(t_en, "en")
        ELSE IF score_es > score_en
             THEN Decision(t_es, IF n_es >= 2 THEN "es" ELSE "unknown")
        ELSE Decision(t_en, IF n_en >= 2 THEN "en" ELSE "unknown")

-----------------------------------------------------------------------------
(* Noise normalisation *)

\* tokens of the vocabulary matched whole by
\* \b(ja+|ha+|jaja+|jeje+|jiji+|ahaha+|eh+|uh+|mmm+)\b
NoiseTokens == { "ja", "ha", "jaja", "jeje", "jiji", "ahaha", "eh", "uh", "mmm" }

IsNoise(w) == Lower(w) \in NoiseTokens

\* each noise token becomes a blank, runs of blanks collapse, the ends are stripped
strip_laughter_noises(t) == SelectSeq(t, LAMBDA w : ~IsNoise(w))

-----------------------------------------------------------------------------
(* Recognition and language decision *)

\* the text of one recognizer pass; any exception leaves the empty text
Hypothesis(rec) == IF rec.ok THEN strip_laughter_noises(rec.text) ELSE <<>>

Transcription(best, hint, t_es, t_en) ==
    [ best |-> best, hint |-> hint, text_es |-> t_es, text_en |-> t_en ]

\* the word-count ratio is tested before the stopword reinforcement
auto_decision_ratio_first(t_es, t_en) ==
    LET picked == pick_lang_by_score(t_es, t_en)
        n_es == Len(t_es)
        n_en == Len(t_en)
        es_hits == stop_hits(t_es, ES_STOPS)
        en_hits == stop_hits(t_en, EN_STOPS)
    IN  IF picked.text = <<>>
        THEN IF t_es # <<>> THEN Transcription(t_es, "es", t_es, t_en)
             ELSE IF t_en # <<>> THEN Transcription(t_en, "en", t_es, t_en)
             ELSE Transcription(<<>>, "unknown", t_es, t_en)
        ELSE IF 4 * n_es >= 5 * n_en /\ n_es >= 3
        THEN Transcription(t_es, "es", t_es, t_en)
        ELSE IF 4 * n_en >= 5 * n_es /\ n_en >= 3
        THEN Transcription(t_en, "en", t_es, t_en)
        ELSE IF es_hits >= 1 /\ n_es >= Max(3, n_en - 2)
        THEN Transcription(t_es, "es", t_es, t_en)
        ELSE IF en_hits >= 2 /\ n_en >= Max(3, n_es + 1)
        THEN Transcription(t_en, "en", t_es, t_en)
        ELSE Transcription(picked.text, picked.hint, t_es, t_en)

\* AUTO: score, then the reinforcement checks
auto_decision(t_es, t_en) ==
    LET picked == pick_lang_by_score(t_es, t_en)
        n_es == Len(t_es)
        n_en == Len(t_en)
        es_hits == stop_hits(t_es, ES_STOPS)
        en_hits == stop_hits(t_en, EN_STOPS)
    IN  IF picked.text = <<>>
        THEN IF t_es # <<>> THEN Transcription(t_es, "es", t_es, t_en)
             ELSE IF t_en # <<>> THEN Transcription(t_en, "en", t_es, t_en)
             ELSE Transcription(<<>>, "unknown", t_es, t_en)
        ELSE IF es_hits >= 1 /\ n_es >= Max(3, n_en - 2)
        THEN Transcription(t_es, "es", t_es, t_en)
        ELSE IF en_hits >= 2 /\ n_en >= Max(3, n_es + 1)
        THEN Transcription(t_en, "en", t_es, t_en)
        \* n_es >= n_en * 1.25, in quarters
        ELSE IF 4 * n_es >= 5 * n_en /\ n_es >= 3
        THEN Transcription(t_es, "es", t_es, t_en)
        ELSE IF 4 * n_en >= 5 * n_es /\ n_en >= 3
        THEN Transcription(t_en, "en", t_es, t_en)
        ELSE Transcription(picked.text, picked.hint, t_es, t_en)

\* the forced branches test the wrong setting
vosk_transcribe_both_swapped(ok, mode, r_es, r_en) ==
    IF ~ok THEN Transcription(<<>>, "unknown", <<>>, <<>>)
    ELSE LET t_es == Hypothesis(r_es)
             run_en == mode = "auto" \/ mode = "en"
             t_en == IF run_en THEN Hypothesis(r_en) ELSE <<>>
         IN  IF mode = "en"
             THEN Transcription(t_es, IF t_es # <<>> THEN "es" ELSE "unknown", t_es, t_en)
             ELSE IF mode = "es"
             THEN Transcription(t_en, IF t_en # <<>> THEN "en" ELSE "unknown", t_es, t_en)
             ELSE auto_decision(t_es, t_en)

vosk_transcribe_both(ok, mode, r_es, r_en) ==
    IF ~ok THEN Transcription(<<>>, "unknown", <<>>, <<>>)
    ELSE LET t_es == Hypothesis(r_es)
             run_en == mode = "auto" \/ mode = "en"
             t_en == IF run_en THEN Hypothesis(r_en) ELSE <<>>
         IN  IF mode = "es"
             THEN Transcription(t_es, IF t_es # <<>> THEN "es" ELSE "unknown", t_es, t_en)
             ELSE IF mode = "en"
             THEN Transcription(t_en, IF t_en # <<>> THEN "en" ELSE "unknown", t_es, t_en)
             ELSE auto_decision(t_es, t_en)

-----------------------------------------------------------------------------
(* Language detection *)

\* codes langdetect may answer with
LangCodes == { "es", "en", "fr" }

normalize_lang(code) ==
    IF code = "es" THEN "es"
    ELSE IF code = "en" THEN "en"
    ELSE "unknown"

\* ld is what langdetect does for this text: one of LangCodes, or "raise"
\* (the import or the detection fails)
detect_lang(text, ld) ==
    IF text = <<>> THEN "unknown"
    ELSE IF ld = "raise" THEN guess_lang_by_stops(text)
    ELSE normalize_lang(ld)

LangDetectOutcomes == LangCodes \cup { "raise" }

-----------------------------------------------------------------------------
(* Local glossary *)

\* A rule is a pattern and its replacement.  A pattern is a sequence of token
\* sets: the tokens each \b...\b word of the regular expression matches, the
\* words of a pattern being separated by blanks (\s+).  Matching ignores case.
Rule(pat, repl) == [ pat |-> pat, repl |-> repl ]

ES_EN_RULES == <<
    Rule(<< { "depósito", "deposito", "depósitos", "depositos" },
            { "mínimo", "minimo", "mínimos", "minimos" } >>, << "minimum", "deposit" >>),
    Rule(<< { "señal", "senal", "señales", "senales" } >>, << "signal" >>),
    Rule(<< { "apalancamiento" } >>, << "leverage" >>),
    Rule(<< { "cuenta", "cuentas" } >>, << "account" >>),
    Rule(<< { "retirada", "retirado", "retiradas", "retirados" } >>, << "withdrawal" >>) >>

EN_ES_RULES == <<
    Rule(<< { "minimum" }, { "deposit", "deposits" } >>, << "depósito", "mínimo" >>),
    Rule(<< { "signal", "signals" } >>, << "señal" >>),
    Rule(<< { "leverage" } >>, << "apalancamiento" >>),
    Rule(<< { "account", "accounts" } >>, << "cuenta" >>),
    Rule(<< { "withdrawal", "withdrawals" } >>, << "retiro" >>) >>

\* the pattern matches the tokens of text starting at position i
MatchAt(pat, text, i) ==
    /\ i + Len(pat) - 1 <= Len(text)
    /\ \A k \in 1..Len(pat) : Lower(text[i + k - 1]) \in pat[k]

RECURSIVE ReSubFrom(_, _, _)
\* re.sub from position i on: leftmost matches, not overlapping
ReSubFrom(rule, text, i) ==
    IF i > Len(text) THEN <<>>
    ELSE IF MatchAt(rule.pat, text, i)
         THEN rule.repl \o ReSubFrom(rule, text, i + Len(rule.pat))
         ELSE << text[i] >> \o ReSubFrom(rule, text, i + 1)

ReSub(rule, text) == ReSubFrom(rule, text, 1)

RECURSIVE ApplyRulesFrom(_, _, _)
\* the rules of the list from the k-th on, each on the output of the one before
ApplyRulesFrom(rules, text, k) ==
    IF k > Len(rules) THEN text
    ELSE ApplyRulesFrom(rules, ReSub(rules[k], text), k + 1)

ApplyRules(rules, text) == ApplyRulesFrom(rules, text, 1)

\* the direction is ignored and both lists are applied
RulesFor_merged(direction) ==
    IF direction \in { << "es", "en" >>, << "en", "es" >> }
    THEN EN_ES_RULES \o ES_EN_RULES
    ELSE <<>>

RulesFor(direction) ==
    IF direction = << "es", "en" >> THEN ES_EN_RULES
    ELSE IF direction = << "en", "es" >> THEN EN_ES_RULES
    ELSE <<>>

apply_local_glossary(text, direction) ==
    IF ~USE_LOCAL_GLOSSARY \/ text = <<>> THEN text
    ELSE ApplyRules(RulesFor(direction), text)

-----------------------------------------------------------------------------
(* Robustness helpers *)

\* tokens of the vocabulary that hold one of the characters áéíóúñ¿¡
SpanishCharTokens == { "señal", "Señal", "señales", "depósito", "depósitos",
                       "mínimo", "mínimos", "aquí", "así" }

is_spanishish(text) ==
    \/ \E i \in DOMAIN text : text[i] \in SpanishCharTokens
    \/ stop_hits(text, ES_STOPS) >= 2

\* the similarity as a fraction num/den; 0 when either token set is empty
jaccard_similarity(a, b) ==
    LET sa == LowerSet(a)
        sb == LowerSet(b)
    IN  IF sa = {} \/ sb = {} THEN [ num |-> 0, den |-> 1 ]
        ELSE [ num |-> Cardinality(sa \cap sb),
               den |-> Max(1, Cardinality(sa \cup sb)) ]

\* sim >= 0.75
too_similar(sim) == 4 * sim.num >= 3 * sim.den

-----------------------------------------------------------------------------
(* Translation router *)

\* what a provider does for one request: kind is "ok" with the text it
\* answers, or a failure ("nokey": no API key configured, "error": the
\* request raises or is refused)
Resp(k, t) == [ kind |-> k, text |-> t ]

\* "" without a key, on an exception and on a status other than 200;
\* otherwise the stripped text of the answer
translate_deepl(text, target, source_lang, resp) ==
    IF resp.kind = "ok" THEN resp.text ELSE <<>>

\* "" on an exception; otherwise the answer, or "" when there is none
translate_google(text, target, source_lang, resp) ==
    IF resp.kind = "ok" THEN resp.text ELSE <<>>

TsRecord(text, target, source_lang, t1, g_called, g_args, t2, src_norm, result) ==
    [ called |-> TRUE, text |-> text, target |-> target, source |-> source_lang,
      deepl |-> t1, google_called |-> g_called, google_args |-> g_args,
      google |-> t2, src_norm |-> src_norm, result |-> result ]

\* the secondary provider is never tried
translate_smart_no_fallback(text, target, source_lang, d, g, ld) ==
    LET t1 == translate_deepl(text, target, source_lang, d)
        s0 == IF source_lang = "none" THEN "unknown" ELSE source_lang
        s1 == IF s0 \notin { "es", "en" } THEN detect_lang(text, ld) ELSE s0
        s2 == IF s1 \notin { "es", "en" }
              THEN (IF target = "en" THEN "es" ELSE "en") ELSE s1
    IN  TsRecord(text, target, source_lang, t1, FALSE, <<>>, <<>>, s2,
                 apply_local_glossary(t1, << s2, IF target = "en" THEN "en" ELSE "es" >>))

\* source_lang is "es", "en" or "none" (no hint); d and g are what the two
\* providers do, ld what langdetect does
translate_smart(text, target, source_lang, d, g, ld) ==
    LET t1 == translate_deepl(text, target, source_lang, d)
        use_google == t1 = <<>>
        t2 == IF use_google THEN translate_google(text, target, source_lang, g) ELSE <<>>
        t == IF use_google THEN t2 ELSE t1
        s0 == IF source_lang = "none" THEN "unknown" ELSE source_lang
        s1 == IF s0 \notin { "es", "en" } THEN detect_lang(text, ld) ELSE s0
        s2 == IF s1 \notin { "es", "en" }
              THEN (IF target = "en" THEN "es" ELSE "en") ELSE s1
    IN  TsRecord(text, target, source_lang, t1, use_google,
                 IF use_google THEN << text, target, source_lang >> ELSE <<>>,
                 t2, s2,
                 apply_local_glossary(t, << s2, IF target = "en" THEN "en" ELSE "es" >>))

-----------------------------------------------------------------------------
(* Speech synthesis and tempo *)

SynthRecord(text, lang, key, voice, primary, s_tried, s_ok) ==
    [ called |-> TRUE, text |-> text, lang |-> lang, key |-> key, voice |-> voice,
      primary |-> primary, secondary_attempted |-> s_tried, secondary_ok |-> s_ok,
      ok |-> primary = "ok" \/ s_ok ]

\* a failed primary ends the synthesis
synthesize_tts_no_fallback(text, lang_code, key, voice, eleven, gtts) ==
    LET primary == IF key /\ voice THEN eleven ELSE "skipped"
        s_tried == primary = "skipped"
    IN  SynthRecord(text, lang_code, key, voice, primary, s_tried, s_tried /\ gtts = "ok")

\* key, voice: the credential is configured (non-empty).  eleven is what the
\* primary does when tried ("ok"; "bad": a status other than 200 or no
\* content; "raise": the request or the write of the file raises), gtts what
\* the secondary does ("ok", "raise").  primary is "skipped" when not tried
synthesize_tts(text, lang_code, key, voice, eleven, gtts) ==
    LET primary == IF key /\ voice THEN eleven ELSE "skipped"
        s_tried == primary # "ok"
    IN  SynthRecord(text, lang_code, key, voice, primary, s_tried, s_tried /\ gtts = "ok")

ElevenOutcomes == { "ok", "bad", "raise" }
GttsOutcomes == { "ok", "raise" }

\* Speeds are counted in ten-thousandths: 1.0 is 10000
SPEED_ONE == 10000
SPEED_MIN == 5000
SPEED_MAX == 20000
\* 1e-3
SPEED_EPS == 10

Num(v) == [ kind |-> "num", v |-> v ]
\* float("nan"): every comparison with it is false
NaN == [ kind |-> "nan", v |-> 0 ]
\* a value float() raises on
Unparsable == [ kind |-> "bad", v |-> 0 ]

\* the clamp lets a factor above the ceiling through
clamp_speed_no_ceiling(s) ==
    IF s.kind = "bad" THEN SPEED_ONE
    ELSE IF s.kind = "nan" THEN SPEED_MAX
    ELSE IF s.v > SPEED_MIN THEN s.v ELSE SPEED_MIN

\* max(0.5, min(2.0, float(speed))), 1.0 when float() raises; min and max
\* keep their first argument unless the second compares smaller (larger)
clamp_speed(s) ==
    IF s.kind = "bad" THEN SPEED_ONE
    ELSE LET m == IF s.kind = "num" /\ s.v < SPEED_MAX THEN s.v ELSE SPEED_MAX
         IN  IF m > SPEED_MIN THEN m ELSE SPEED_MIN

AdjRecord(spd, invoked, out, ok) ==
    [ called |-> TRUE, spd |-> spd, tool_invoked |-> invoked, out |-> out, ok |-> ok ]

\* tool is what running ffmpeg does: "ok", "missing" (FileNotFoundError),
\* "fail" (non-zero exit), "empty" (exit 0, output absent or empty); copyable
\* is whether shutil.copyfile succeeds.  out is "adjusted", "copy" (the bytes
\* of the input) or "none" (no valid output)
adjust_speed_with_ffmpeg(s, tool, copyable) ==
    LET spd == clamp_speed(s)
    IN  IF Abs(spd - SPEED_ONE) < SPEED_EPS
        THEN IF copyable THEN AdjRecord(spd, FALSE, "copy", TRUE)
             ELSE AdjRecord(spd, FALSE, "none", FALSE)
        ELSE IF tool = "ok" THEN AdjRecord(spd, TRUE, "adjusted", TRUE)
        ELSE IF copyable THEN AdjRecord(spd, TRUE, "copy", TRUE)
        ELSE AdjRecord(spd, TRUE, "none", FALSE)

ToolOutcomes == { "ok", "missing", "fail", "empty" }

\* TTS_SPEED as read from the environment: a number float() parses, or not
tts_speed(env) == IF env.kind = "bad" THEN Num(SPEED_ONE) ELSE env

\* tts_to_mp3 after a successful synthesis: the tempo step on the raw file
\* decides whether an audio file was produced
tts_to_mp3_tempo(env_speed, tool, copyable) ==
    adjust_speed_with_ffmpeg(tts_speed(env_speed), tool, copyable).ok

-----------------------------------------------------------------------------
(* Inputs of the decision harness *)

ES_MARKS == << "el", "la" >>
EN_MARKS == << "the", "and" >>

\* the stopwords of S in a fixed order, then k filler tokens, then z laughs
MkText(marks, S, fill, k, z) ==
    SelectSeq(marks, LAMBDA w : w \in S) \o Rep(fill, k) \o Rep("jaja", z)

RawTexts(marks, fill, maxFill, maxNoise) ==
    { MkText(marks, S, fill, k, z) :
        S \in SUBSET Range(marks), k \in 0..maxFill, z \in 0..maxNoise }

Recognitions(texts) ==
    { [ ok |-> TRUE, text |-> t ] : t \in texts } \cup { [ ok |-> FALSE, text |-> <<>> ] }

Modes == { "auto", "es", "en" }

NoTs == [ called |-> FALSE ]
NoSynth == [ called |-> FALSE ]
NoAdj == [ called |-> FALSE ]

\* values of the variables a harness does not use
PipelineIdle ==
    /\ text_in = <<>>
    /\ src = "unknown"
    /\ dst = "es"
    /\ translated = <<>>
    /\ ts = NoTs
    /\ translateCalls = 0
    /\ flips = 0
    /\ replies = <<>>
    /\ synth = NoSynth
    /\ ttsCalls = 0

RecognitionIdle ==
    /\ FORCE_STT_LANG = "es"
    /\ vosk_ok = TRUE
    /\ rec_es = [ ok |-> FALSE, text |-> <<>> ]
    /\ rec_en = [ ok |-> FALSE, text |-> <<>> ]
    /\ text_es = <<>>
    /\ text_en = <<>>
    /\ text_best = <<>>
    /\ src_hint = "unknown"

GlossaryIdle ==
    /\ gtext = <<>>
    /\ gdir = << "es", "en" >>
    /\ gprev = <<>>
    /\ gcount = 0

TempoIdle ==
    /\ speed = [ kind |-> "num", v |-> 0 ]
    /\ ffmpeg = "ok"
    /\ copy_ok = TRUE
    /\ adj = NoAdj

-----------------------------------------------------------------------------
(* The request pipeline: _process_audio_file and handle_text *)

PIPE_ES_MARKS == << "el", "señal" >>
PIPE_EN_MARKS == << "the", "el", "la" >>
TEXT_MARKS == << "the", "and", "el", "la" >>

\* what a translation provider may answer: nothing, the text unchanged, or a
\* translation that leaves a glossary term of the other language in place
DeeplAnswer(target) == IF target = "en" THEN << "the", "cuentas" >> ELSE << "la", "signals" >>
GoogleAnswer(target) == IF target = "en" THEN << "a", "Señal" >> ELSE << "una", "account" >>

DeeplResponses(text, target) ==
    { Resp("nokey", <<>>), Resp("error", <<>>), Resp("ok", <<>>),
      Resp("ok", text), Resp("ok", DeeplAnswer(target)) }

GoogleResponses(text, target) ==
    { Resp("error", <<>>), Resp("ok", <<>>),
      Resp("ok", text), Resp("ok", GoogleAnswer(target)) }

EnvSpeeds == { Num(9500), Num(SPEED_ONE), Unparsable }

\* an unknown source is sent to English
target_for_default_en(s) == IF s = "es" THEN "en" ELSE IF s = "en" THEN "es" ELSE "en"

\* dst for a source language
target_for(s) == IF s = "es" THEN "en" ELSE IF s = "en" THEN "es" ELSE "es"

\* the source hint handed to translate_smart
hint_of(s) == IF s \in { "es", "en" } THEN s ELSE "none"

\* the audio is attempted whatever the translation
after_reply_always_speak(tr, speak) == speak

\* where the handler goes after the textual reply
after_reply(tr, speak) == IF tr # <<>> THEN speak ELSE "done"

Init ==
    /\ kind \in { "audio", "text" }
    /\ USE_LOCAL_GLOSSARY \in BOOLEAN
    /\ IF kind = "audio"
       THEN /\ pc = "convert"
            /\ FORCE_STT_LANG \in Modes
            /\ vosk_ok \in BOOLEAN
            /\ rec_es \in Recognitions(RawTexts(PIPE_ES_MARKS, "gato", PipeMaxFill, 0))
            /\ rec_en \in Recognitions(RawTexts(PIPE_EN_MARKS, "cat", PipeMaxFill, 0))
            /\ text_es = <<>>
            /\ text_en = <<>>
            /\ text_best = <<>>
            /\ src_hint = "unknown"
            /\ text_in = <<>>
       ELSE /\ pc = "text"
            /\ RecognitionIdle
            /\ text_in \in RawTexts(TEXT_MARKS, "gato", PipeMaxFill, 0)
    /\ src = "unknown"
    /\ dst = "es"
    /\ translated = <<>>
    /\ ts = NoTs
    /\ translateCalls = 0
    /\ flips = 0
    /\ replies = <<>>
    /\ synth = NoSynth
    /\ ttsCalls = 0
    /\ GlossaryIdle
    /\ TempoIdle

harness_vars == << gtext, gdir, gprev, gcount, speed, ffmpeg, copy_ok, adj >>
config_vars == << kind, FORCE_STT_LANG, USE_LOCAL_GLOSSARY, vosk_ok, rec_es, rec_en >>
hyp_vars == << text_es, text_en, text_best, src_hint >>

\* 2) ffmpeg_to_wav_mono16k; on failure the request ends with a notice
Convert ==
    /\ kind = "audio"
    /\ pc = "convert"
    /\ \E ok \in BOOLEAN :
          IF ok THEN pc' = "transcribe" /\ replies' = replies
          ELSE pc' = "done" /\ replies' = Append(replies, "NoConvert")
    /\ UNCHANGED << config_vars, hyp_vars, text_in, src, dst, translated, ts,
                    translateCalls, flips, synth, ttsCalls, harness_vars >>

\* the request goes on with an empty transcription
Transcribe_no_return ==
    /\ kind = "audio"
    /\ pc = "transcribe"
    /\ LET r == vosk_transcribe_both(vosk_ok, FORCE_STT_LANG, rec_es, rec_en)
       IN  /\ text_best' = r.best
           /\ src_hint' = r.hint
           /\ text_es' = r.text_es
           /\ text_en' = r.text_en
           /\ pc' = "direction"
           /\ replies' = replies
    /\ UNCHANGED << config_vars, text_in, src, dst, translated, ts,
                    translateCalls, flips, synth, ttsCalls, harness_vars >>

\* 3) vosk_transcribe_both; without a text the request ends with a notice
Transcribe ==
    /\ kind = "audio"
    /\ pc = "transcribe"
    /\ LET r == vosk_transcribe_both(vosk_ok, FORCE_STT_LANG, rec_es, rec_en)
       IN  /\ text_best' = r.best
           /\ src_hint' = r.hint
           /\ text_es' = r.text_es
           /\ text_en' = r.text_en
           /\ IF r.best = <<>>
              THEN pc' = "done" /\ replies' = Append(replies, "NoTranscribe")
              ELSE pc' = "direction" /\ replies' = replies
    /\ UNCHANGED << config_vars, text_in, src, dst, translated, ts,
                    translateCalls, flips, synth, ttsCalls, harness_vars >>

\* 4) source and target language
Direction ==
    /\ kind = "audio"
    /\ pc = "direction"
    /\ \E ld \in LangDetectOutcomes :
          LET s0 == normalize_lang(src_hint)
              sguess == guess_lang_by_stops(text_best)
              s == IF s0 # "unknown" THEN s0
                   ELSE IF sguess # "unknown" THEN sguess
                   ELSE detect_lang(text_best, ld)
          IN  /\ src' = s
              /\ dst' = target_for(s)
    /\ pc' = "translate"
    /\ UNCHANGED << config_vars, hyp_vars, text_in, translated, ts,
                    translateCalls, flips, replies, synth, ttsCalls, harness_vars >>

\* 5) the first translation
Translate ==
    /\ kind = "audio"
    /\ pc = "translate"
    /\ \E d \in DeeplResponses(text_best, dst), g \in GoogleResponses(text_best, dst),
          ld \in LangDetectOutcomes :
          /\ ts' = translate_smart(text_best, dst, hint_of(src), d, g, ld)
          /\ translated' = ts'.result
    /\ translateCalls' = translateCalls + 1
    /\ pc' = "reconcile"
    /\ UNCHANGED << config_vars, hyp_vars, text_in, src, dst,
                    flips, replies, synth, ttsCalls, harness_vars >>

\* the correction is wanted
looks_wrong(s, text, tr) ==
    s = "en" /\ (is_spanishish(text) \/ too_similar(jaccard_similarity(text, tr)))

\* the correction is repeated for as long as the result looks suspicious
Reconcile_again ==
    /\ kind = "audio"
    /\ pc = "reconcile"
    /\ IF is_spanishish(text_best) \/ too_similar(jaccard_similarity(text_best, translated))
       THEN /\ src' = "es"
            /\ dst' = "en"
            /\ flips' = flips + (IF src = "es" THEN 0 ELSE 1)
            /\ \E d \in DeeplResponses(text_best, "en"), g \in GoogleResponses(text_best, "en"),
                  ld \in LangDetectOutcomes :
                  /\ ts' = translate_smart(text_best, "en", "es", d, g, ld)
                  /\ translated' = ts'.result
            /\ translateCalls' = translateCalls + 1
            /\ pc' = "reconcile"
       ELSE /\ UNCHANGED << src, dst, flips, ts, translated, translateCalls >>
            /\ pc' = "reply"
    /\ UNCHANGED << config_vars, hyp_vars, text_in, replies, synth, ttsCalls, harness_vars >>

\* the fallback for a wrong detection: one flip to Spanish, one re-translation
Reconcile ==
    /\ kind = "audio"
    /\ pc = "reconcile"
    /\ IF looks_wrong(src, text_best, translated)
       THEN /\ src' = "es"
            /\ dst' = "en"
            /\ flips' = flips + 1
            /\ \E d \in DeeplResponses(text_best, "en"), g \in GoogleResponses(text_best, "en"),
                  ld \in LangDetectOutcomes :
                  /\ ts' = translate_smart(text_best, "en", "es", d, g, ld)
                  /\ translated' = ts'.result
            /\ translateCalls' = translateCalls + 1
       ELSE UNCHANGED << src, dst, flips, ts, translated, translateCalls >>
    /\ pc' = "reply"
    /\ UNCHANGED << config_vars, hyp_vars, text_in, replies, synth, ttsCalls, harness_vars >>

\* the textual reply (step 6 of _process_audio_file, and the same in handle_text)
Reply ==
    /\ pc = "reply"
    /\ replies' = Append(replies, IF translated # <<>> THEN "Translation"
                                  ELSE "TranslationUnavailable")
    /\ pc' = after_reply(translated, "speak")
    /\ UNCHANGED << config_vars, hyp_vars, text_in, src, dst, translated, ts,
                    translateCalls, flips, synth, ttsCalls, harness_vars >>

\* tts_to_mp3, first half: synthesize_tts into the raw file; when it fails the
\* handler sends the notice that no audio could be made
Synthesize ==
    /\ pc = "speak"
    /\ \E key \in BOOLEAN, voice \in BOOLEAN, eleven \in ElevenOutcomes,
          gtts \in GttsOutcomes :
          /\ synth' = synthesize_tts(translated, dst, key, voice, eleven, gtts)
          /\ IF synth'.ok
             THEN pc' = "tempo" /\ replies' = replies
             ELSE pc' = "done" /\ replies' = Append(replies, "NoTts")
    /\ ttsCalls' = ttsCalls + 1
    /\ UNCHANGED << config_vars, hyp_vars, text_in, src, dst, translated, ts,
                    translateCalls, flips, harness_vars >>

\* tts_to_mp3, second half: the tempo step; the handler sends the audio, or
\* the notice when the step reports failure
Tempo ==
    /\ pc = "tempo"
    /\ \E sp \in EnvSpeeds, tool \in ToolOutcomes, copyable \in BOOLEAN :
          replies' = Append(replies, IF tts_to_mp3_tempo(sp, tool, copyable)
                                     THEN "Audio" ELSE "NoTts")
    /\ pc' = "done"
    /\ UNCHANGED << config_vars, hyp_vars, text_in, src, dst, translated, ts,
                    translateCalls, flips, synth, ttsCalls, harness_vars >>

\* handle_text: an empty message is ignored; otherwise the language is detected
TextDetect ==
    /\ kind = "text"
    /\ pc = "text"
    /\ IF text_in = <<>>
       THEN pc' = "done" /\ UNCHANGED << src, dst >>
       ELSE /\ \E ld \in LangDetectOutcomes :
                  /\ src' = detect_lang(text_in, ld)
                  /\ dst' = target_for(src')
            /\ pc' = "text_translate"
    /\ UNCHANGED << config_vars, hyp_vars, text_in, translated, ts,
                    translateCalls, flips, replies, synth, ttsCalls, harness_vars >>

TextTranslate ==
    /\ kind = "text"
    /\ pc = "text_translate"
    /\ \E d \in DeeplResponses(text_in, dst), g \in GoogleResponses(text_in, dst),
          ld \in LangDetectOutcomes :
          /\ ts' = translate_smart(text_in, dst, hint_of(src), d, g, ld)
          /\ translated' = ts'.result
    /\ translateCalls' = translateCalls + 1
    /\ pc' = "reply"
    /\ UNCHANGED << config_vars, hyp_vars, text_in, src, dst,
                    flips, replies, synth, ttsCalls, harness_vars >>

Next ==
    \/ Convert
    \/ Transcribe
    \/ Direction
    \/ Translate
    \/ Reconcile
    \/ Reply
    \/ Synthesize
    \/ Tempo
    \/ TextDetect
    \/ TextTranslate

Spec == Init /\ [][Next]_vars

\* the audio request got as far as a transcription
Transcribed ==
    kind = "audio" /\ pc \notin { "convert", "transcribe" } /\ replies # << "NoConvert" >>

\* C3: when both hypotheses are empty, in every mode, the decision is the
\* empty text with language "unknown", and the request ends with the notice
\* that the audio could not be transcribed, with no translation and no
\* synthesis.
C3_NoSpeechDetected ==
    (Transcribed /\ text_es = <<>> /\ text_en = <<>>) =>
        /\ text_best = <<>>
        /\ src_hint = "unknown"
        /\ pc = "done"
        /\ replies = << "NoTranscribe" >>
        /\ translateCalls = 0 /\ ~ts.called
        /\ ttsCalls = 0 /\ ~synth.called

C3_Witness ==
    /\ Transcribed
    /\ FORCE_STT_LANG = "auto"
    /\ vosk_ok /\ rec_es.ok /\ rec_en.ok
    /\ text_es = <<>> /\ text_en = <<>>
    /\ pc = "done"
    /\ replies = << "NoTranscribe" >>

\* C4: the consistency correction fires at most once per audio request: the
\* translation router is invoked at most twice and the source language changes
\* at most once, also when the corrected translation is identical to the source.
C4_CorrectionAtMostOnce ==
    /\ translateCalls <= 2
    /\ flips <= 1
    /\ flips = 1 => (translateCalls = 2 /\ src = "es")

C4_Witness ==
    /\ kind = "audio"
    /\ pc = "done"
    /\ flips = 1
    /\ translateCalls = 2
    /\ jaccard_similarity(text_best, translated) = [ num |-> 1, den |-> 1 ]

\* C5: in the last invocation of the translation router the secondary provider
\* was called exactly when the primary gave nothing, with the same text,
\* target and source hint; when the primary gave nothing and the secondary
\* answered, the result is the secondary's answer with the glossary applied.
C5_ProviderFallback ==
    ts.called =>
        /\ ts.google_called <=> (ts.deepl = <<>>)
        /\ ts.google_called => ts.google_args = << ts.text, ts.target, ts.source >>
        /\ (ts.deepl = <<>> /\ ts.google # <<>>) =>
              /\ ts.result = apply_local_glossary(ts.google, << ts.src_norm, ts.target >>)
              /\ translated = ts.result

C5_Witness ==
    /\ ts.called
    /\ USE_LOCAL_GLOSSARY
    /\ ts.deepl = <<>>
    /\ ts.google_called
    /\ ts.google = << "a", "Señal" >>
    /\ translated = << "a", "signal" >>

\* C6: when both providers fail in the final invocation of the router the
\* translation is empty, the textual reply is still sent (translation marked
\* unavailable) and synthesis is never invoked; synthesis is invoked only
\* after the reply, for a non-empty final translation.
C6_NoSynthesisWithoutTranslation ==
    /\ (ts.called /\ ts.deepl = <<>> /\ ts.google = <<>>) => translated = <<>>
    /\ (ts.called /\ translated = <<>> /\ pc = "done") =>
          /\ replies = << "TranslationUnavailable" >>
          /\ ttsCalls = 0 /\ ~synth.called
    /\ pc \in { "speak", "tempo" } => translated # <<>>
    /\ synth.called =>
          /\ translated # <<>>
          /\ synth.text = translated
          /\ replies[1] = "Translation"
          /\ pc \in { "tempo", "done" }

C6_Witness ==
    /\ kind = "audio"
    /\ pc = "done"
    /\ translateCalls = 2
    /\ ts.deepl = <<>> /\ ts.google_called /\ ts.google = <<>>
    /\ replies = << "TranslationUnavailable" >>
    /\ ttsCalls = 0

\* C7: the primary voice provider is tried only with both credentials; when
\* it is not tried, raises or answers badly the secondary is tried; synthesis
\* fails only if the secondary fails too, and then the request completes with
\* the textual reply already sent.
C7_SynthesisFallback ==
    synth.called =>
        /\ synth.primary # "skipped" <=> (synth.key /\ synth.voice)
        /\ synth.primary \in { "skipped", "raise", "bad" } => synth.secondary_attempted
        /\ synth.ok <=> (synth.primary = "ok" \/ (synth.secondary_attempted /\ synth.secondary_ok))
        /\ ~synth.ok => synth.secondary_attempted /\ ~synth.secondary_ok
        /\ ~synth.ok => (pc = "done" /\ replies = << "Translation", "NoTts" >>)

C7_Witness ==
    /\ synth.called
    /\ synth.key /\ synth.voice
    /\ synth.primary = "raise"
    /\ synth.secondary_attempted
    /\ ~synth.ok
    /\ pc = "done"
    /\ replies = << "Translation", "NoTts" >>

\* the target is the other language of a known source, and "es" otherwise
Complement(s, t) ==
    IF s = "es" THEN t = "en" ELSE IF s = "en" THEN t = "es" ELSE t = "es"

\* C10: at every call of the translation router and of speech synthesis the
\* target is "es" or "en", the other language of a known source and "es" for
\* an unknown one, before and after the consistency correction.
C10_DirectionInvariant ==
    /\ ts.called =>
          /\ ts.target \in { "es", "en" }
          /\ ts.target = dst
          /\ ts.source = (IF src \in { "es", "en" } THEN src ELSE "none")
          /\ Complement(src, dst)
    /\ synth.called =>
          /\ synth.lang \in { "es", "en" }
          /\ synth.lang = dst
          /\ Complement(src, dst)

C10_Witness ==
    /\ kind = "audio"
    /\ flips = 1
    /\ ts.called /\ ts.source = "es" /\ ts.target = "en"
    /\ synth.called /\ synth.lang = "en"
    /\ src = "es" /\ dst = "en"

-----------------------------------------------------------------------------
(* Decision harness: vosk_transcribe_both applied to bounded hypotheses *)

InitDecide ==
    /\ kind = "decide"
    /\ pc = "transcribe"
    /\ FORCE_STT_LANG \in Modes
    /\ USE_LOCAL_GLOSSARY = TRUE
    /\ vosk_ok \in BOOLEAN
    /\ rec_es \in Recognitions(RawTexts(ES_MARKS, "gato", MaxFill, MaxNoise))
    /\ rec_en \in Recognitions(RawTexts(EN_MARKS, "cat", MaxFill, MaxNoise))
    /\ text_es = <<>>
    /\ text_en = <<>>
    /\ text_best = <<>>
    /\ src_hint = "unknown"
    /\ PipelineIdle
    /\ GlossaryIdle
    /\ TempoIdle

Decide ==
    /\ kind = "decide"
    /\ pc = "transcribe"
    /\ LET r == vosk_transcribe_both(vosk_ok, FORCE_STT_LANG, rec_es, rec_en)
       IN  /\ text_best' = r.best
           /\ src_hint' = r.hint
           /\ text_es' = r.text_es
           /\ text_en' = r.text_en
    /\ pc' = "decided"
    /\ UNCHANGED << kind, FORCE_STT_LANG, USE_LOCAL_GLOSSARY, vosk_ok, rec_es, rec_en,
                    text_in, src, dst, translated, ts, translateCalls, flips,
                    replies, synth, ttsCalls,
                    gtext, gdir, gprev, gcount, speed, ffmpeg, copy_ok, adj >>

NextDecide == Decide

SpecDecide == InitDecide /\ [][NextDecide]_vars

Decided == kind = "decide" /\ pc = "decided"

OnlyEs == text_es # <<>> /\ text_en = <<>>
OnlyEn == text_es = <<>> /\ text_en # <<>>

\* C1 (as stated): in auto mode, when exactly one hypothesis is non-empty the
\* decision is that text with that hypothesis's own language tag, single-word
\* hypotheses included.
C1_AsStated ==
    (Decided /\ FORCE_STT_LANG = "auto") =>
        /\ OnlyEs => (text_best = text_es /\ src_hint = "es")
        /\ OnlyEn => (text_best = text_en /\ src_hint = "en")

\* C1 (amended): in auto mode, when exactly one hypothesis is non-empty the
\* chosen text is that hypothesis; its tag is the hypothesis's own language when
\* it has at least two words and "unknown" when it is a single word, never the
\* other language.
C1_OnlyNonEmptySelected ==
    (Decided /\ FORCE_STT_LANG = "auto") =>
        /\ OnlyEs => /\ text_best = text_es
                     /\ src_hint = (IF Len(text_es) >= 2 THEN "es" ELSE "unknown")
        /\ OnlyEn => /\ text_best = text_en
                     /\ src_hint = (IF Len(text_en) >= 2 THEN "en" ELSE "unknown")

C1_Witness ==
    /\ Decided
    /\ FORCE_STT_LANG = "auto"
    /\ OnlyEn
    /\ Len(text_en) = 1
    /\ text_best = text_en
    /\ src_hint = "unknown"

HasEsStrong == Len(text_es) >= 3 /\ (\E i \in DOMAIN text_es : text_es[i] \in ES_STOPS)

\* C2 (as stated): in every mode, a Spanish hypothesis of at least three words
\* with a Spanish stopword against an empty English hypothesis is decided as the
\* Spanish text with language "es".
C2_AsStated ==
    (Decided /\ HasEsStrong /\ text_en = <<>>) =>
        (text_best = text_es /\ src_hint = "es")

\* C2 (amended): the same decision holds when the configuration is auto or es;
\* when en is forced the decision is the empty text with language "unknown".
C2_EsStrongSelected ==
    (Decided /\ HasEsStrong /\ text_en = <<>>) =>
        IF FORCE_STT_LANG = "en"
        THEN text_best = <<>> /\ src_hint = "unknown"
        ELSE text_best = text_es /\ src_hint = "es"

C2_Witness ==
    /\ Decided
    /\ FORCE_STT_LANG = "es"
    /\ text_es = << "el", "gato", "gato" >>
    /\ text_en = <<>>
    /\ rec_en.ok /\ rec_en.text # <<>>
    /\ text_best = text_es
    /\ src_hint = "es"

\* one hypothesis has at least three words and at least 1.25 times the
\* words of the other
EsOutweighs == Len(text_es) >= 3 /\ 4 * Len(text_es) >= 5 * Len(text_en)
EnOutweighs == Len(text_en) >= 3 /\ 4 * Len(text_en) >= 5 * Len(text_es)

\* the Spanish reinforcement that is tested first: a Spanish stopword in a
\* Spanish hypothesis of at least three words, at most two words shorter than
\* the English one
EsReinforced ==
    /\ \E i \in DOMAIN text_es : text_es[i] \in ES_STOPS
    /\ Len(text_es) >= 3
    /\ Len(text_es) >= Len(text_en) - 2

\* C11 (as stated): in auto mode a hypothesis of at least three words and at
\* least 1.25 times the words of the other is selected with its own tag,
\* whatever the stopword hits and the scores.
C11_AsStated ==
    (Decided /\ FORCE_STT_LANG = "auto") =>
        /\ EsOutweighs => (text_best = text_es /\ src_hint = "es")
        /\ EnOutweighs => (text_best = text_en /\ src_hint = "en")

\* C11 (amended): in auto mode a Spanish hypothesis that outweighs the English
\* one is always selected as "es"; an English hypothesis that outweighs the
\* Spanish one is selected as "en" unless the Spanish reinforcement applies,
\* and then the Spanish hypothesis is selected as "es".
C11_RatioOverride ==
    (Decided /\ FORCE_STT_LANG = "auto") =>
        /\ EsOutweighs => (text_best = text_es /\ src_hint = "es")
        /\ EnOutweighs =>
              IF EsReinforced
              THEN text_best = text_es /\ src_hint = "es"
              ELSE text_best = text_en /\ src_hint = "en"

C11_Witness ==
    /\ Decided
    /\ FORCE_STT_LANG = "auto"
    /\ text_en = << "cat", "cat", "cat", "cat", "cat" >>
    /\ text_es = << "el", "gato", "gato", "gato" >>
    /\ text_best = text_es
    /\ src_hint = "es"

-----------------------------------------------------------------------------
(* Scoring harness: pick_lang_by_score applied to bounded hypothesis pairs *)

InitPick ==
    /\ kind = "pick"
    /\ pc = "pick"
    /\ FORCE_STT_LANG = "auto"
    /\ USE_LOCAL_GLOSSARY = TRUE
    /\ vosk_ok = TRUE
    /\ rec_es = [ ok |-> FALSE, text |-> <<>> ]
    /\ rec_en = [ ok |-> FALSE, text |-> <<>> ]
    /\ text_es \in RawTexts(ES_MARKS, "gato", MaxFill, 0)
    /\ text_en \in RawTexts(EN_MARKS, "cat", MaxFill, 0)
    /\ text_best = <<>>
    /\ src_hint = "unknown"
    /\ PipelineIdle
    /\ GlossaryIdle
    /\ TempoIdle

Pick ==
    /\ kind = "pick"
    /\ pc = "pick"
    /\ LET r == pick_lang_by_score(text_es, text_en)
       IN  /\ text_best' = r.text
           /\ src_hint' = r.hint
    /\ pc' = "picked"
    /\ UNCHANGED << kind, FORCE_STT_LANG, USE_LOCAL_GLOSSARY, vosk_ok, rec_es, rec_en,
                    text_es, text_en,
                    text_in, src, dst, translated, ts, translateCalls, flips,
                    replies, synth, ttsCalls,
                    gtext, gdir, gprev, gcount, speed, ffmpeg, copy_ok, adj >>

NextPick == Pick

SpecPick == InitPick /\ [][NextPick]_vars

\* score = words + 2 * stopwords
Score(t, stops) == Len(t) + 2 * stop_hits(t, stops)

\* C12: when the two scores are equal and not both zero, pick_lang_by_score
\* returns the Spanish hypothesis, never the English one, also when neither
\* side has a stopword hit in at least two words.
C12_TieFavoursSpanish ==
    ( /\ kind = "pick" /\ pc = "picked"
      /\ Score(text_es, ES_STOPS) = Score(text_en, EN_STOPS)
      /\ Score(text_es, ES_STOPS) > 0 ) =>
        (text_best = text_es /\ text_best # text_en)

-----------------------------------------------------------------------------
(* Glossary harness: apply_local_glossary applied repeatedly to bounded texts *)

GlossVocab == { "depósito", "mínimo", "Señal", "cuentas", "retirada",
                "minimum", "deposits", "signals", "withdrawal", "gato" }

GlossTexts == UNION { [ 1..n -> GlossVocab ] : n \in 0..MaxGlossLen }

Directions == { << "es", "en" >>, << "en", "es" >> }

InitGlossary ==
    /\ kind = "glossary"
    /\ pc = "glossary"
    /\ USE_LOCAL_GLOSSARY \in BOOLEAN
    /\ gtext \in GlossTexts
    /\ gdir \in Directions
    /\ gprev = <<>>
    /\ gcount = 0
    /\ RecognitionIdle
    /\ PipelineIdle
    /\ TempoIdle

ApplyGlossary ==
    /\ kind = "glossary"
    /\ gcount < 2
    /\ gprev' = gtext
    /\ gtext' = apply_local_glossary(gtext, gdir)
    /\ gcount' = gcount + 1
    /\ UNCHANGED << pc, kind, FORCE_STT_LANG, USE_LOCAL_GLOSSARY, vosk_ok, rec_es, rec_en,
                    text_es, text_en, text_best, src_hint, text_in, src, dst, translated,
                    ts, translateCalls, flips, replies, synth, ttsCalls,
                    gdir, speed, ffmpeg, copy_ok, adj >>

NextGlossary == ApplyGlossary

SpecGlossary == InitGlossary /\ [][NextGlossary]_vars

\* some pattern of the list matches somewhere in the text
MatchedBy(rules, text) ==
    \E j \in DOMAIN rules : \E i \in DOMAIN text : MatchAt(rules[j].pat, text, i)

\* C8: for each supported direction a second application of the glossary
\* changes nothing, and no replacement text of a direction's list is matched
\* by a pattern of that same list.
C8_GlossaryIdempotent ==
    /\ (kind = "glossary" /\ gcount = 2) => gtext = gprev
    /\ \A d \in Directions : \A i \in DOMAIN RulesFor(d) :
           ~MatchedBy(RulesFor(d), RulesFor(d)[i].repl)

C8_Witness ==
    /\ kind = "glossary"
    /\ gcount = 2
    /\ USE_LOCAL_GLOSSARY
    /\ gdir = << "es", "en" >>
    /\ gtext = << "minimum", "deposit", "signal" >>
    /\ gtext = gprev

-----------------------------------------------------------------------------
(* Tempo harness: adjust_speed_with_ffmpeg applied to bounded speeds *)

\* the requested speeds: a grid of halves, the values around 1.0 and the
\* values float() does not turn into a number.  1.001 is left out: its
\* distance to 1.0 is below 1e-3 in binary floating point and equal to it in
\* exact arithmetic
Speeds ==
    { Num(k * SPEED_MIN) : k \in (-1)..MaxSpeedHalves }
    \cup { Num(1000), Num(9500), Num(9990), Num(9995), Num(10005), Num(10500) }
    \cup { NaN, Unparsable }

InitTempo ==
    /\ kind = "tempo"
    /\ pc = "tempo"
    /\ USE_LOCAL_GLOSSARY = TRUE
    /\ speed \in Speeds
    /\ ffmpeg \in ToolOutcomes
    /\ copy_ok \in BOOLEAN
    /\ adj = NoAdj
    /\ RecognitionIdle
    /\ PipelineIdle
    /\ GlossaryIdle

AdjustSpeed ==
    /\ kind = "tempo"
    /\ ~adj.called
    /\ adj' = adjust_speed_with_ffmpeg(speed, ffmpeg, copy_ok)
    /\ UNCHANGED << pc, kind, FORCE_STT_LANG, USE_LOCAL_GLOSSARY, vosk_ok, rec_es, rec_en,
                    text_es, text_en, text_best, src_hint, text_in, src, dst, translated,
                    ts, translateCalls, flips, replies, synth, ttsCalls,
                    gtext, gdir, gprev, gcount, speed, ffmpeg, copy_ok >>

NextTempo == AdjustSpeed

SpecTempo == InitTempo /\ [][NextTempo]_vars

\* the factor the request asks for, clamped to [0.5, 2.0]
ClampOk ==
    /\ SPEED_MIN <= adj.spd /\ adj.spd <= SPEED_MAX
    /\ speed.kind = "num" =>
          /\ speed.v <= SPEED_MIN => adj.spd = SPEED_MIN
          /\ speed.v >= SPEED_MAX => adj.spd = SPEED_MAX
          /\ (SPEED_MIN < speed.v /\ speed.v < SPEED_MAX) => adj.spd = speed.v
    /\ speed = Unparsable => adj.spd = SPEED_ONE

NearOne == Abs(adj.spd - SPEED_ONE) < SPEED_EPS

\* C9 (as stated): the factor is clamped to [0.5, 2.0] (unparsable gives 1.0);
\* within 0.001 of 1.0 the output is a byte copy and the tool is not invoked;
\* when the tool is missing or fails the output is a byte copy and the step
\* reports success.
C9_AsStated ==
    (kind = "tempo" /\ adj.called) =>
        /\ ClampOk
        /\ NearOne => (adj.out = "copy" /\ ~adj.tool_invoked)
        /\ (~NearOne /\ ffmpeg \in { "missing", "fail" }) => (adj.out = "copy" /\ adj.ok)

\* C9 (amended): the factor is clamped as stated; within 0.001 of 1.0 the tool
\* is not invoked, and when the tool is missing or fails it was tried; in both
\* cases the output is a byte copy of the input and the step reports success
\* provided the copy itself succeeds, and otherwise there is no output and the
\* step reports failure.
C9_TempoNormalized ==
    (kind = "tempo" /\ adj.called) =>
        /\ ClampOk
        /\ NearOne => ~adj.tool_invoked
        /\ (NearOne \/ ffmpeg \in { "missing", "fail" }) =>
              IF copy_ok THEN adj.out = "copy" /\ adj.ok
              ELSE adj.out = "none" /\ ~adj.ok

C9_Witness ==
    /\ kind = "tempo"
    /\ adj.called
    /\ speed = Num(50000)
    /\ adj.spd = SPEED_MAX
    /\ ffmpeg = "missing"
    /\ copy_ok
    /\ adj.out = "copy"
    /\ adj.ok

====
